---- MODULE Spec2Model ----
(***************************************************************************)
(* A model of rename_invoices.py: the field extractors that read an        *)
(* invoice's OCR text (normalize_date, extract_invoice_no,                  *)
(* clean_company_name, ...), the name builder, and main's two passes over  *)
(* a directory of PDFs (extraction into rows, then the renames).           *)
(*                                                                         *)
(* Text is a sequence of characters.  A character is a one-character       *)
(* string; a character outside ASCII is written by name ("c_caron" is the  *)
(* letter c with caron).  The regular expressions of the source are kept   *)
(* as syntax trees and run by a backtracking matcher that returns its      *)
(* matches in the order Python's re tries them.                            *)
(***************************************************************************)
EXTENDS Integers, Sequences, FiniteSets, TLC

VARIABLES
    fn,         \* pure-function runs: which function is applied
    arg,        \* pure-function runs: the input drawn in Init
    res,        \* pure-function runs: results so far (a sequence)
    now_year,   \* the calendar year dateutil sees (datetime.now())
    pad_year,   \* whether the C library's strftime pads %Y to 4 digits
    pdfs,       \* main: the list os.listdir gave, filtered to *.pdf
    inplace,    \* main: args.inplace
    rows,       \* main: rows
    files,      \* the directory: file name -> whose content it holds
    pc,         \* main: where the program is
    f_idx,      \* main: index of the extraction loop
    r_idx,      \* main: index of the rename loop
    dst,        \* main: dst of the row being renamed
    i_ctr,      \* main: i of the row being renamed
    base_ext,   \* main: (base, ext) of the row being renamed
    at_start,   \* history: the directory when the rename pass began
    lost,       \* history: contents destroyed by an os.replace onto a file
    final,      \* history: row index -> name the row's file was renamed to
    warned,     \* history: rows whose os.replace raised
    ext_made    \* history: number of files the external actor created

vars == <<fn, arg, res, now_year, pad_year, pdfs, inplace, rows, files, pc,
          f_idx, r_idx, dst, i_ctr, base_ext, at_start, lost, final, warned,
          ext_made>>

\* Python's None where a string may stand: a sequence that is no text (its
\* one element is no character); Unmodelled likewise, for a library result
\* the model does not compute
None == <<"None">>
Unmodelled == <<"Unmodelled">>
\* bool(x) is False: x is None or the empty string
falsy(x) == x = None \/ x = <<>>

-----------------------------------------------------------------------------
(* Characters *)

DigitSeq == <<"0", "1", "2", "3", "4", "5", "6", "7", "8", "9">>
UpperSeq == <<"A", "B", "C", "D", "E", "F", "G", "H", "I", "J", "K", "L", "M",
              "N", "O", "P", "Q", "R", "S", "T", "U", "V", "W", "X", "Y", "Z",
              "C_caron", "I_acute", "E_caron">>
LowerSeq == <<"a", "b", "c", "d", "e", "f", "g", "h", "i", "j", "k", "l", "m",
              "n", "o", "p", "q", "r", "s", "t", "u", "v", "w", "x", "y", "z",
              "c_caron", "i_acute", "e_caron">>

Range(q) == {q[k] : k \in 1..Len(q)}
Digits == Range(DigitSeq)
AsciiUpper == {UpperSeq[k] : k \in 1..26}
AsciiLower == {LowerSeq[k] : k \in 1..26}
\* letters outside ASCII: those with a case pair, and sharp s (lower case only)
OtherLetters == {UpperSeq[k] : k \in 27..Len(UpperSeq)}
                    \cup {LowerSeq[k] : k \in 27..Len(LowerSeq)} \cup {"sharp_s"}
\* str.isspace / \s
Whitespace == {" ", "\t", "\n"}
\* \w of a str pattern: Unicode letters, digits and the underscore
WordChars == AsciiUpper \cup AsciiLower \cup OtherLetters \cup Digits \cup {"_"}

IndexIn(q, c) == CHOOSE k \in 1..Len(q) : q[k] = c
lower(c) == IF c \in Range(UpperSeq) THEN LowerSeq[IndexIn(UpperSeq, c)] ELSE c
upper(c) == IF c \in Range(LowerSeq) THEN UpperSeq[IndexIn(LowerSeq, c)] ELSE c
\* str.upper and str.lower, on the letters that have a case pair
str_upper(s) == [k \in 1..Len(s) |-> upper(s[k])]
str_lower(s) == [k \in 1..Len(s) |-> lower(s[k])]

RECURSIVE Flat(_)
Flat(ss) ==
    IF Len(ss) = 0 THEN <<>>
    ELSE IF Len(ss) = 1 THEN ss[1]
    ELSE Flat(SubSeq(ss, 1, Len(ss) \div 2)) \o Flat(SubSeq(ss, Len(ss) \div 2 + 1, Len(ss)))

\* int(x) of a string of ASCII digits
RECURSIVE int(_)
int(s) == IF s = <<>> THEN 0
          ELSE 10 * int(SubSeq(s, 1, Len(s) - 1)) + (IndexIn(DigitSeq, s[Len(s)]) - 1)

\* str(n) of a natural number
RECURSIVE str(_)
str(n) == IF n < 10 THEN <<DigitSeq[n + 1]>> ELSE str(n \div 10) \o <<DigitSeq[(n % 10) + 1]>>

\* str.strip(): whitespace off both ends; strip_chars(s, cs) is s.strip(cs)
RECURSIVE lstrip_chars(_, _)
lstrip_chars(s, cs) == IF s # <<>> /\ Head(s) \in cs THEN lstrip_chars(Tail(s), cs) ELSE s
RECURSIVE rstrip_chars(_, _)
rstrip_chars(s, cs) ==
    IF s # <<>> /\ s[Len(s)] \in cs THEN rstrip_chars(SubSeq(s, 1, Len(s) - 1), cs) ELSE s
strip_chars(s, cs) == rstrip_chars(lstrip_chars(s, cs), cs)
strip(s) == strip_chars(s, Whitespace)

-----------------------------------------------------------------------------
(* Regular expressions: syntax trees and Python's backtracking search.
   A match result is [e |-> offset after the match, g |-> the spans
   <<begin, end>> of the groups, in the order the groups open]; offsets count
   the characters before the position, so s[i + 1] is the character at
   offset i.  M gives every way a pattern matches at an offset, most
   preferred first, which is the order re backtracks through. *)

Inf == -1
Lit(s) == [t |-> "lit", s |-> s]
Set(cs) == [t |-> "set", cs |-> cs, neg |-> FALSE]
NotSet(cs) == [t |-> "set", cs |-> cs, neg |-> TRUE]
Cat(rs) == [t |-> "cat", rs |-> rs]
Alt(rs) == [t |-> "alt", rs |-> rs]
Rep(r, lo, hi) == [t |-> "rep", r |-> r, lo |-> lo, hi |-> hi]
Star(r) == Rep(r, 0, Inf)
Plus(r) == Rep(r, 1, Inf)
Opt(r) == Rep(r, 0, 1)
Grp(r) == [t |-> "grp", r |-> r]
WB == [t |-> "wb"]
BOL == [t |-> "bol"]
\* \d \s \S and . (no DOTALL)
D == Set(Digits)
S == Set(Whitespace)
NS == NotSet(Whitespace)
Dot == NotSet({"\n"})

\* a character against a class or a literal, under re.IGNORECASE when ic
CharIn(c, cs, ic) == c \in cs \/ (ic /\ (lower(c) \in cs \/ upper(c) \in cs))
CharEq(c, d, ic) == c = d \/ (ic /\ lower(c) = lower(d))

\* \b: exactly one side of the offset is a word character
IsWordAt(s, k) == k >= 1 /\ k <= Len(s) /\ s[k] \in WordChars
AtWordBoundary(s, i) == IsWordAt(s, i) # IsWordAt(s, i + 1)

Here(i) == [e |-> i, g |-> <<>>]

RECURSIVE M(_, _, _, _), MCat(_, _, _, _, _), MRep(_, _, _, _, _)

M(r, s, i, ic) ==
    CASE r.t = "lit" ->
            IF i + Len(r.s) <= Len(s)
                  /\ \A k \in 1..Len(r.s) : CharEq(s[i + k], r.s[k], ic)
            THEN <<Here(i + Len(r.s))>> ELSE <<>>
      [] r.t = "set" ->
            IF i < Len(s) /\ (CharIn(s[i + 1], r.cs, ic) # r.neg)
            THEN <<Here(i + 1)>> ELSE <<>>
      [] r.t = "wb" -> IF AtWordBoundary(s, i) THEN <<Here(i)>> ELSE <<>>
      [] r.t = "bol" -> IF i = 0 THEN <<Here(i)>> ELSE <<>>
      [] r.t = "grp" ->
            LET inner == M(r.r, s, i, ic)
            IN  [k \in 1..Len(inner) |->
                    [e |-> inner[k].e, g |-> <<<<i, inner[k].e>>>> \o inner[k].g]]
      [] r.t = "alt" -> Flat([k \in 1..Len(r.rs) |-> M(r.rs[k], s, i, ic)])
      [] r.t = "cat" -> MCat(r.rs, s, ic, 1, <<Here(i)>>)
      [] r.t = "rep" -> MRep(r, s, i, ic, 0)

\* the parts rs[k], rs[k+1], ... of a concatenation after the matches ps of
\* the parts before them: each match of ps, in order, continued by each match
\* of rs[k], in order
MCat(rs, s, ic, k, ps) ==
    IF k > Len(rs) \/ ps = <<>> THEN ps
    ELSE MCat(rs, s, ic, k + 1,
              Flat([p \in 1..Len(ps) |->
                  LET next == M(rs[k], s, ps[p].e, ic)
                  IN  [j \in 1..Len(next) |->
                          [e |-> next[j].e, g |-> ps[p].g \o next[j].g]]]))

\* the length of the longest run of characters of class r from offset i on
RunLength(r, s, i, ic) ==
    LET ok(k) == \A j \in 1..k : CharIn(s[i + j], r.cs, ic) # r.neg
        ks == {k \in 0..(Len(s) - i) : ok(k)}
    IN  CHOOSE k \in ks : \A k2 \in ks : k2 <= k

\* greedy: one more repetition is tried before stopping.  A repeated class
\* is matched as a run, longest first
MRep(r, s, i, ic, n) ==
    IF r.r.t = "set"
    THEN LET run == RunLength(r.r, s, i, ic)
             top == IF r.hi = Inf \/ run <= r.hi THEN run ELSE r.hi
         IN  [j \in 1..(top - r.lo + 1) |-> Here(i + top - j + 1)]
    ELSE LET one  == IF r.hi = Inf \/ n < r.hi THEN M(r.r, s, i, ic) ELSE <<>>
             more == Flat([k \in 1..Len(one) |->
                        IF one[k].e = i THEN <<>>
                        ELSE LET rest == MRep(r, s, one[k].e, ic, n + 1)
                             IN  [j \in 1..Len(rest) |->
                                     [e |-> rest[j].e, g |-> one[k].g \o rest[j].g]]])
         IN  more \o (IF n >= r.lo THEN <<Here(i)>> ELSE <<>>)

NoMatch == [b |-> -1, e |-> -1, g |-> <<>>]

\* re.search(r, s) from offset i on: the first offset with a match, and there
\* the most preferred match; ms maps each offset to its matches
FirstHit(ms) ==
    LET hits == {j \in DOMAIN ms : ms[j] # <<>>}
    IN  IF hits = {} THEN NoMatch
        ELSE LET b == CHOOSE j \in hits : \A k \in hits : j <= k
             IN  [b |-> b, e |-> ms[b][1].e, g |-> ms[b][1].g]
SearchFrom(r, s, i, ic) == FirstHit([j \in i..Len(s) |-> M(r, s, j, ic)])
re_search(r, s, ic) == SearchFrom(r, s, 0, ic)

Span(s, b, e) == SubSeq(s, b + 1, e)
\* m.group(0) and m.group(n)
group0(s, m) == Span(s, m.b, m.e)
group(s, m, n) == Span(s, m.g[n][1], m.g[n][2])

\* re.finditer(r, s): the non-overlapping matches, left to right
RECURSIVE FindFrom(_, _, _, _)
FindFrom(r, s, i, ic) ==
    LET m == SearchFrom(r, s, i, ic)
    IN  IF m.b = -1 THEN <<>>
        ELSE <<m>> \o FindFrom(r, s, IF m.e > m.b THEN m.e ELSE m.e + 1, ic)
re_finditer(r, s, ic) == FindFrom(r, s, 0, ic)

\* re.sub(r, repl, s): the text between the matches ms of finditer, from the
\* end of match i (the start of s for i = 0) on, with repl for each match
RECURSIVE SubFrom(_, _, _, _)
SubFrom(repl, s, i, ms) ==
    IF i > Len(ms) THEN <<>>
    ELSE Span(s, IF i = 0 THEN 0 ELSE ms[i].e, IF i = Len(ms) THEN Len(s) ELSE ms[i + 1].b)
            \o (IF i = Len(ms) THEN <<>> ELSE repl)
            \o SubFrom(repl, s, i + 1, ms)
\* in the empty subject the only possible match is the empty one
re_sub(r, repl, s, ic) ==
    IF s = <<>> THEN (IF M(r, s, 0, ic) = <<>> THEN <<>> ELSE repl)
    ELSE SubFrom(repl, s, 0, re_finditer(r, s, ic))

-----------------------------------------------------------------------------
(* normalize_date *)

DateSep == Set({".", "-", "/"})
DATE_REGEXES == <<
    \* \b(\d{1,2})[.\-/](\d{1,2})[.\-/](\d{2,4})\b
    Cat(<<WB, Grp(Rep(D, 1, 2)), DateSep, Grp(Rep(D, 1, 2)), DateSep, Grp(Rep(D, 2, 4)), WB>>),
    \* \b(\d{4})[.\-/](\d{1,2})[.\-/](\d{1,2})\b
    Cat(<<WB, Grp(Rep(D, 4, 4)), DateSep, Grp(Rep(D, 1, 2)), DateSep, Grp(Rep(D, 1, 2)), WB>>),
    \* \b(\d{1,2})\s*\.\s*(\d{1,2})\s*\.\s*(\d{2,4})\b
    Cat(<<WB, Grp(Rep(D, 1, 2)), Star(S), Lit(<<".">>), Star(S), Grp(Rep(D, 1, 2)),
          Star(S), Lit(<<".">>), Star(S), Grp(Rep(D, 2, 4)), WB>>) >>

\* a date is [y, mn, d]; NoDate stands for no date (an exception was caught)
NoDate == [y |-> -1, mn |-> -1, d |-> -1]
UnmodelledDate == [y |-> -2, mn |-> -2, d |-> -2]
\* datetime.MINYEAR, datetime.MAXYEAR
MINYEAR == 1
MAXYEAR == 9999
DaysInMonth(y, mn) ==
    IF mn = 2 THEN (IF y % 4 = 0 /\ (y % 100 # 0 \/ y % 400 = 0) THEN 29 ELSE 28)
    ELSE IF mn \in {4, 6, 9, 11} THEN 30 ELSE 31
\* datetime(y, mn, d) is built; otherwise it raises ValueError
datetime_ok(y, mn, d) ==
    /\ y >= MINYEAR /\ y <= MAXYEAR
    /\ mn >= 1 /\ mn <= 12
    /\ d >= 1 /\ d <= DaysInMonth(y, mn)

\* n as at least w digits
RECURSIVE zfill(_, _)
zfill(ds, w) == IF Len(ds) >= w THEN ds ELSE zfill(<<"0">> \o ds, w)
\* dt.strftime("%Y-%m-%d"): %m and %d are two digits; %Y is what the C
\* library prints, four digits where it pads and the bare number where not
strftime_Ymd(t, pad) ==
    (IF pad THEN zfill(str(t.y), 4) ELSE str(t.y))
        \o <<"-">> \o zfill(str(t.mn), 2) \o <<"-">> \o zfill(str(t.d), 2)

\* the order heuristic of normalize_date on the groups g of a match
ymd_of_groups(g) ==
    LET a == int(g[1])
        b == int(g[2])
        c == int(g[3])
    IN  IF Len(g[1]) = 4 THEN [y |-> a, mn |-> b, d |-> c]
        ELSE IF Len(g[3]) = 4 THEN [y |-> c, mn |-> b, d |-> a]
        ELSE [y |-> (IF c < 100 THEN 2000 + c ELSE c), mn |-> b, d |-> a]

\* the groups of a match of one of DATE_REGEXES
\* "try: return datetime(y,mn,d)...; except: pass": the date t when it can be
\* built, and otherwise what the rest of the loop gives
built_or(t, rest) == IF datetime_ok(t.y, t.mn, t.d) THEN t ELSE rest

\* the loop over DATE_REGEXES from pattern k on: the date of the first
\* pattern that matches and whose groups make a date; NoDate when none does
RECURSIVE numeric_date(_, _), try_pattern(_, _, _)
numeric_date(s, k) ==
    IF k > Len(DATE_REGEXES) THEN NoDate
    ELSE try_pattern(s, k, re_search(DATE_REGEXES[k], s, TRUE))
try_pattern(s, k, m) ==
    IF m.b = -1 THEN numeric_date(s, k + 1)
    ELSE built_or(ymd_of_groups(<<group(s, m, 1), group(s, m, 2), group(s, m, 3)>>), numeric_date(s, k + 1))

(* dateutil's parser.parse(s, dayfirst=True, fuzzy=True), on the strings the
   model gives it: the empty string, and three runs of digits joined by one
   of . - / used twice.  Any other string gives Unmodelled. *)
ThreeNumbers == Cat(<<BOL, Grp(Plus(D)), Grp(DateSep), Grp(Plus(D)), Grp(DateSep), Grp(Plus(D))>>)
\* _ymd.append: a digit string longer than 2 is the year, with its century
IsYearToken(tok) == Len(tok) > 2
\* parserinfo.convertyear
convertyear(year, century_specified, now) ==
    IF year < 100 /\ ~century_specified
    THEN LET c == year + (now \div 100) * 100
         IN  IF c >= now + 50 THEN c - 100
             ELSE IF c < now - 50 THEN c + 100 ELSE c
    ELSE year
\* _ymd.resolve_ymd(yearfirst=False, dayfirst=True) on three numbers, none of
\* them a month name; ystr0: the first token is labelled as the year
resolve_ymd(v, ystr0) ==
    IF v[1] > 31 \/ ystr0
    THEN IF v[3] <= 12 THEN [y |-> v[1], d |-> v[2], mn |-> v[3]]
         ELSE [y |-> v[1], mn |-> v[2], d |-> v[3]]
    ELSE IF v[1] > 12 \/ v[2] <= 12 THEN [d |-> v[1], mn |-> v[2], y |-> v[3]]
    ELSE [mn |-> v[1], d |-> v[2], y |-> v[3]]
resolved(tok, now) ==
    LET r == resolve_ymd(<<int(tok[1]), int(tok[2]), int(tok[3])>>, IsYearToken(tok[1]))
    IN  [y |-> convertyear(r.y, \E k \in 1..3 : IsYearToken(tok[k]), now),
         mn |-> r.mn, d |-> r.d]
parse_tokens(tok, now) ==
    IF Cardinality({k \in 1..3 : IsYearToken(tok[k])}) > 1
    THEN NoDate                                   \* ValueError: year is already set
    ELSE built_or(resolved(tok, now), NoDate)     \* or ValueError from datetime
parse_match(s, ms, now) ==
    IF ms = <<>> THEN UnmodelledDate
    ELSE IF ms[1].e # Len(s) \/ group(s, ms[1], 2) # group(s, ms[1], 4) THEN UnmodelledDate
    ELSE parse_tokens(<<group(s, ms[1], 1), group(s, ms[1], 3), group(s, ms[1], 5)>>, now)
dparser_parse(s, now) ==
    IF s = <<>> THEN NoDate                       \* ParserError: no date in the string
    ELSE parse_match(s, M(ThreeNumbers, s, 0, FALSE), now)

numeric_or(t, s, now) == IF t # NoDate THEN t ELSE dparser_parse(s, now)
rendered(dt, pad) ==
    IF dt = NoDate THEN None
    ELSE IF dt = UnmodelledDate THEN Unmodelled
    ELSE strftime_Ymd(dt, pad)
\* normalize_date(any_date_text): "YYYY-MM-DD", or None; every exception of
\* either path is caught
normalize_date(any_date_text, now, pad) == 
    rendered(numeric_or(numeric_date(strip(any_date_text), 1), strip(any_date_text), now), pad)

-----------------------------------------------------------------------------
(* extract_invoice_no *)

\* [A-Z0-9/\-] and [:\s]
InvChars == AsciiUpper \cup Digits \cup {"/", "-"}
InvValue == Set(InvChars)
ColonSpace == Set({":"} \cup Whitespace)

INVOICE_NO_REGEXES == <<
    \* (?:číslo|cislo)\s*faktury[:\s]*([A-Z0-9/\-]+)
    Cat(<<Alt(<<Lit(<<"c_caron", "i_acute", "s", "l", "o">>), Lit(<<"c", "i", "s", "l", "o">>)>>), Star(S), Lit(<<"f", "a", "k", "t", "u", "r", "y">>),
          Star(ColonSpace), Grp(Plus(InvValue))>>),
    \* faktura\s*(?:č\.|#)?[:\s]*([A-Z0-9/\-]+)
    Cat(<<Lit(<<"f", "a", "k", "t", "u", "r", "a">>), Star(S), Opt(Alt(<<Lit(<<"c_caron", ".">>), Lit(<<"#">>)>>)),
          Star(ColonSpace), Grp(Plus(InvValue))>>),
    \* invoice\s*(?:no\.|number|#)?[:\s]*([A-Z0-9/\-]+)
    Cat(<<Lit(<<"i", "n", "v", "o", "i", "c", "e">>), Star(S), Opt(Alt(<<Lit(<<"n", "o", ".">>), Lit(<<"n", "u", "m", "b", "e", "r">>), Lit(<<"#">>)>>)),
          Star(ColonSpace), Grp(Plus(InvValue))>>),
    \* \b(?:inv|var|vs)\s*[:#]?\s*([A-Z0-9/\-]{3,})
    Cat(<<WB, Alt(<<Lit(<<"i", "n", "v">>), Lit(<<"v", "a", "r">>), Lit(<<"v", "s">>)>>), Star(S), Opt(Set({":", "#"})),
          Star(S), Grp(Rep(InvValue, 3, Inf))>>) >>

\* \b([A-Z]{1,4}[-/]?\d{2,4}[-/]\d{2,6}|[0-9]{3,}/[0-9]{2,4}|[A-Z0-9]{5,})\b
LooseInvoiceNo ==
    Cat(<<WB,
          Grp(Alt(<<Cat(<<Rep(Set(AsciiUpper), 1, 4), Opt(Set({"-", "/"})), Rep(D, 2, 4),
                          Set({"-", "/"}), Rep(D, 2, 6)>>),
                    Cat(<<Rep(Set(Digits), 3, Inf), Lit(<<"/">>), Rep(Set(Digits), 2, 4)>>),
                    Rep(Set(AsciiUpper \cup Digits), 5, Inf)>>)),
          WB>>)

\* the minimum length of an accepted label value
MinInvoiceLen == 3

\* the loop over INVOICE_NO_REGEXES from pattern k on; None when no pattern
\* gives a value of MinInvoiceLen characters
RECURSIVE labelled_invoice_no(_, _)
labelled_invoice_no(text, k) ==
    IF k > Len(INVOICE_NO_REGEXES) THEN None
    ELSE LET m == re_search(INVOICE_NO_REGEXES[k], text, TRUE)
             raw == re_sub(NotSet(InvChars), <<>>, str_upper(strip(group(text, m, 1))), FALSE)
         IN  IF m.b # -1 /\ Len(raw) >= MinInvoiceLen THEN raw
             ELSE labelled_invoice_no(text, k + 1)

extract_invoice_no(text) ==
    LET v == labelled_invoice_no(text, 1)
        m == re_search(LooseInvoiceNo, text, TRUE)
    IN  IF v # None THEN v
        ELSE IF m.b # -1 THEN str_upper(group(text, m, 1))
        ELSE None

-----------------------------------------------------------------------------
(* clean_company_name *)

\* A-Za-z0-9 and the Czech letters of the pattern
NameStartChars == AsciiUpper \cup AsciiLower \cup Digits
                    \cup {"C_caron", "c_caron", "I_acute", "i_acute", "E_caron", "e_caron"}
\* ^[^A-Za-z0-9...]+
LeadingJunk == Cat(<<BOL, Plus(NotSet(NameStartChars))>>)
\* \S+@\S+
Email == Cat(<<Plus(NS), Lit(<<"@">>), Plus(NS)>>)
\* \+?\d[\d\s\-]{6,}
Phone == Cat(<<Opt(Lit(<<"+">>)), D, Rep(Set(Digits \cup Whitespace \cup {"-"}), 6, Inf)>>)
\* \b(ulice|street|ul\.|č\.p\.|psc|zip|budova|building)\b.*
AddressTail ==
    Cat(<<WB, Grp(Alt(<<Lit(<<"u", "l", "i", "c", "e">>), Lit(<<"s", "t", "r", "e", "e", "t">>), Lit(<<"u", "l", ".">>), Lit(<<"c_caron", ".", "p", ".">>),
                        Lit(<<"p", "s", "c">>), Lit(<<"z", "i", "p">>), Lit(<<"b", "u", "d", "o", "v", "a">>), Lit(<<"b", "u", "i", "l", "d", "i", "n", "g">>)>>)),
          WB, Star(Dot)>>)
\* \s{2,}
SpaceRun == Rep(S, 2, Inf)

\* the length a company name is cut to
MaxCompanyLen == 60

clean_company_name(s0) ==
    LET s1 == strip(s0)
        s2 == re_sub(LeadingJunk, <<>>, s1, FALSE)
        s3 == re_sub(Email, <<>>, s2, FALSE)
        s4 == re_sub(Phone, <<>>, s3, FALSE)
        s5 == re_sub(AddressTail, <<>>, s4, TRUE)
        s6 == re_sub(SpaceRun, <<" ">>, s5, FALSE)
        s7 == strip_chars(s6, {" ", ".", ",", "-"})
    IN  IF Len(s7) > MaxCompanyLen THEN rstrip_chars(SubSeq(s7, 1, MaxCompanyLen), Whitespace) ELSE s7

-----------------------------------------------------------------------------
(* sanitize_filename and build_new_name *)

\* unidecode.unidecode: ASCII is kept, any other character becomes its ASCII
\* transliteration (possibly several characters)
unidecode_char(c) ==
    CASE c \in {"c_caron"} -> <<"c">>
      [] c \in {"C_caron"} -> <<"C">>
      [] c \in {"i_acute"} -> <<"i">>
      [] c \in {"I_acute"} -> <<"I">>
      [] c \in {"e_caron"} -> <<"e">>
      [] c \in {"E_caron"} -> <<"E">>
      [] c \in {"sharp_s"} -> <<"s", "s">>
      [] OTHER -> <<c>>
unidecode(s) == Flat([k \in 1..Len(s) |-> unidecode_char(s[k])])

\* s.replace(old, new) for a one-character old
replace_char(s, old, new) == [k \in 1..Len(s) |-> IF s[k] = old THEN new ELSE s[k]]

\* [:*?"<>|]
ReservedChars == {":", "*", "?", "\"", "<", ">", "|"}

\* sanitize_filename without its second replace: backslashes stay
sanitize_keep_backslash(s0) ==
    strip(re_sub(SpaceRun, <<" ">>, re_sub(Set(ReservedChars), <<"-">>, replace_char(s0, "/", "-"), FALSE), FALSE))

sanitize_filename(s0) ==
    LET s1 == replace_char(s0, "/", "-")
        s2 == replace_char(s1, "\\", "-")
        s3 == re_sub(Set(ReservedChars), <<"-">>, s2, FALSE)
    IN  strip(re_sub(SpaceRun, <<" ">>, s3, FALSE))

\* the sentinels of the missing fields, and the extension
NoDateToken == <<"0", "0", "0", "0", "-", "0", "0", "-", "0", "0">>
NoSupplierToken == <<"N", "e", "z", "n", "a", "m", "y", "-", "d", "o", "d", "a", "v", "a", "t", "e", "l">>
NoInvoiceToken == <<"B", "e", "z", "-", "c", "i", "s", "l", "a">>
PdfExt == <<".", "p", "d", "f">>

\* x or y
py_or(x, y) == IF falsy(x) THEN y ELSE x

build_new_name(date_str, supplier, invno) ==
    LET parts == <<py_or(date_str, NoDateToken), py_or(supplier, NoSupplierToken),
                   py_or(invno, NoInvoiceToken)>>
        name == parts[1] \o <<" ">> \o parts[2] \o <<" ">> \o parts[3] \o PdfExt
    IN  sanitize_filename(unidecode(name))

-----------------------------------------------------------------------------
(* find_first_by_hints, extract_date, extract_supplier *)

DATE_HINT_WORDS == <<
    \* datum\s*vystav(e|ě)ní
    Cat(<<Lit(<<"d", "a", "t", "u", "m">>), Star(S), Lit(<<"v", "y", "s", "t", "a", "v">>), Grp(Alt(<<Lit(<<"e">>), Lit(<<"e_caron">>)>>)),
          Lit(<<"n", "i_acute">>)>>),
    Lit(<<"v", "y", "s", "t", "a", "v", "e", "n", "o">>),
    \* date\s*of\s*issue
    Cat(<<Lit(<<"d", "a", "t", "e">>), Star(S), Lit(<<"o", "f">>), Star(S), Lit(<<"i", "s", "s", "u", "e">>)>>),
    \* issue\s*date
    Cat(<<Lit(<<"i", "s", "s", "u", "e">>), Star(S), Lit(<<"d", "a", "t", "e">>)>>),
    Lit(<<"d", "a", "t", "u", "m">>),
    Lit(<<"d", "a", "t", "e">>) >>
SUPPLIER_HINT_WORDS == <<Lit(<<"d", "o", "d", "a", "v", "a", "t", "e", "l">>), Lit(<<"s", "u", "p", "p", "l", "i", "e", "r">>), Lit(<<"v", "y", "s", "t", "a", "v", "i", "t", "e", "l">>)>>

COMPANY_MARKERS == <<
    Lit(<<"s", ".", "r", ".", "o", ".">>), Lit(<<"a", ".", "s", ".">>), Lit(<<"s", "r", "o">>), Lit(<<"a", "s">>), Lit(<<"s", "e">>), Lit(<<"g", "m", "b", "h">>),
    Lit(<<"k", "g">>), Lit(<<"s", "p", "o", "l", ".">>), Lit(<<"i", "n", "c", ".">>),
    \* ltd\.?
    Cat(<<Lit(<<"l", "t", "d">>), Opt(Lit(<<".">>))>>) >>

\* text.splitlines(): the pieces between line breaks, no empty last piece
splitlines(text) ==
    LET nl == {k \in 1..Len(text) : text[k] = "\n"}
        \* the k-th line break, counted from the left
        brk(k) == CHOOSE p \in nl : Cardinality({q \in nl : q <= p}) = k
        n == Cardinality(nl)
        from(k) == IF k = 1 THEN 1 ELSE brk(k - 1) + 1
        to(k) == IF k = n + 1 THEN Len(text) ELSE brk(k) - 1
        all == [k \in 1..(n + 1) |-> SubSeq(text, from(k), to(k))]
    IN  IF all[n + 1] = <<>> THEN SubSeq(all, 1, n) ELSE all

\* [l.strip() for l in text.splitlines() if l.strip()]
RECURSIVE keep_nonblank(_)
keep_nonblank(ls) ==
    IF ls = <<>> THEN <<>>
    ELSE (IF strip(Head(ls)) = <<>> THEN <<>> ELSE <<strip(Head(ls))>>)
            \o keep_nonblank(Tail(ls))
stripped_lines(text) == keep_nonblank(splitlines(text))

\* "\n".join(lines)
RECURSIVE join_lines(_)
join_lines(ls) ==
    IF ls = <<>> THEN <<>>
    ELSE IF Len(ls) = 1 THEN ls[1]
    ELSE ls[1] \o <<"\n">> \o join_lines(Tail(ls))

\* the number of characters of lines 1..k, each with its line break
RECURSIVE acc_len(_, _)
acc_len(ls, k) == IF k = 0 THEN 0 ELSE acc_len(ls, k - 1) + Len(ls[k]) + 1

\* the lines near the match of one hint: up to three lines after the line
\* holding the match's start, those of at least 3 characters (indices from 1)
MinCandidateLen == 3
hint_candidates(lines, hw) ==
    LET m == re_search(hw, join_lines(lines), TRUE)
        hits == {k \in 1..Len(lines) : acc_len(lines, k) > m.b}
        idx == IF hits = {} THEN 1 ELSE CHOOSE k \in hits : \A k2 \in hits : k <= k2
        last == IF idx + 3 < Len(lines) THEN idx + 3 ELSE Len(lines)
    IN  IF m.b = -1 THEN <<>>
        ELSE Flat([j \in 1..(last - idx) |->
                IF Len(lines[idx + j]) >= MinCandidateLen THEN <<lines[idx + j]>> ELSE <<>>])

\* everything the generator yields, in order
find_first_by_hints(text, hint_words) ==
    LET lines == stripped_lines(text)
    IN  Flat([k \in 1..Len(hint_words) |-> hint_candidates(lines, hint_words[k])])

\* the first element of q, from index k on, that is true; None if none
RECURSIVE first_truthy(_, _)
first_truthy(q, k) ==
    IF k > Len(q) THEN None
    ELSE IF falsy(q[k]) THEN first_truthy(q, k + 1) ELSE q[k]

\* m.group(0) of every match of every one of DATE_REGEXES, pattern by pattern
spans_of(text, ms) == [j \in 1..Len(ms) |-> group0(text, ms[j])]
date_spans(text) ==
    Flat([k \in 1..Len(DATE_REGEXES) |-> spans_of(text, re_finditer(DATE_REGEXES[k], text, TRUE))])
\* the texts extract_date hands to normalize_date, in the order it does: the
\* lines near a date hint, the spans of the date patterns, the whole text
date_candidates(text) == find_first_by_hints(text, DATE_HINT_WORDS) \o date_spans(text) \o <<text>>
normalized(q, now, pad) == [k \in 1..Len(q) |-> normalize_date(q[k], now, pad)]
\* the first candidate normalize_date makes a date of; None when it makes
\* none of the last one, the whole text
extract_date(text, now, pad) == first_truthy(normalized(date_candidates(text), now, pad), 1)

\* the letters the company heuristic counts
\* len(line.split()): the runs of non-whitespace
word_count(line) ==
    Cardinality({k \in 1..Len(line) :
        line[k] \notin Whitespace /\ (k = 1 \/ line[k - 1] \in Whitespace)})
looks_like_company(line) ==
    \/ \E k \in 1..Len(COMPANY_MARKERS) : re_search(COMPANY_MARKERS[k], line, TRUE).b # -1
    \/ /\ Cardinality({k \in 1..Len(line) : line[k] \in NameStartChars \ Digits}) > 8
       /\ word_count(line) >= 2

\* \b([a-z0-9\-]+)\.(cz|sk|com|eu|de)\b
DomainName ==
    Cat(<<WB, Grp(Plus(Set(AsciiLower \cup Digits \cup {"-"}))), Lit(<<".">>),
          Grp(Alt(<<Lit(<<"c", "z">>), Lit(<<"s", "k">>), Lit(<<"c", "o", "m">>), Lit(<<"e", "u">>), Lit(<<"d", "e">>)>>)), WB>>)
\* str.capitalize()
capitalize(s) == [k \in 1..Len(s) |-> IF k = 1 THEN upper(s[k]) ELSE lower(s[k])]

MinSupplierLen == 3
TopLines == 12
\* lines[:12]
top_lines(lines) == SubSeq(lines, 1, IF Len(lines) < TopLines THEN Len(lines) ELSE TopLines)
\* "if looks_like_company(l)": the lines of q that pass, in order
RECURSIVE company_lines(_)
company_lines(q) ==
    IF q = <<>> THEN <<>>
    ELSE (IF looks_like_company(Head(q)) THEN <<Head(q)>> ELSE <<>>) \o company_lines(Tail(q))
\* the lines extract_supplier hands to clean_company_name, in the order it
\* does: the lines near a supplier hint, then the company-like top lines
supplier_candidates(text) ==
    find_first_by_hints(text, SUPPLIER_HINT_WORDS) \o company_lines(top_lines(stripped_lines(text)))
\* "if len(c) >= 3: return c"
accepted(c) == IF Len(c) >= MinSupplierLen THEN c ELSE None
cleaned(q) == [k \in 1..Len(q) |-> accepted(clean_company_name(q[k]))]
\* re.search of the domain pattern, the last resort
domain_supplier(text, m) == IF m.b # -1 THEN capitalize(group(text, m, 1)) ELSE None
supplier_or(c, text) == IF c # None THEN c ELSE domain_supplier(text, re_search(DomainName, text, TRUE))
extract_supplier(text) == supplier_or(first_truthy(cleaned(supplier_candidates(text)), 1), text)
-----------------------------------------------------------------------------
(* process_pdf and main *)

(* A document is what the collaborators of process_pdf make of a file:
   err is the message of the exception that rendering or preprocessing
   raises ("" when none does), page whether the PDF has a first page,
   ocr_pre the OCR text of the preprocessed image and ocr_raw that of the
   image as rendered (ocr_image gives "" when tesseract fails). *)
TextA == <<"I", "n", "v", ":", " ", "F", "1", "/", "2", "2", "\n", "1", ".", "2", ".", "2", "5", "\n", "A", "c", "m", "e", " ", "a", ".", "s", ".">>
Blank == <<" ", "\n">>
DocKinds == {
    [page |-> FALSE, err |-> <<>>, ocr_pre |-> <<>>, ocr_raw |-> <<>>],
    [page |-> TRUE, err |-> <<"b", "o", "o", "m">>, ocr_pre |-> <<>>, ocr_raw |-> <<>>],
    [page |-> TRUE, err |-> <<>>, ocr_pre |-> <<>>, ocr_raw |-> <<>>],
    [page |-> TRUE, err |-> <<>>, ocr_pre |-> <<>>, ocr_raw |-> Blank],
    [page |-> TRUE, err |-> <<>>, ocr_pre |-> Blank, ocr_raw |-> TextA],
    [page |-> TRUE, err |-> <<>>, ocr_pre |-> TextA, ocr_raw |-> TextA] }

OK == <<"O", "K">>
NO_PAGE == <<"N", "O", "_", "P", "A", "G", "E">>
ERROR(msg) == <<"E", "R", "R", "O", "R", ":">> \o msg

\* the extractions with "or \"\"" left out: absent fields stay None
extracted_without_or(text, now, pad) ==
    [date |-> extract_date(text, now, pad),
     sup |-> extract_supplier(text),
     inv |-> extract_invoice_no(text),
     status |-> OK]
\* the three extractions of process_pdf over the OCR text, "or \"\"" applied
extracted(text, now, pad) ==
    [date |-> py_or(extract_date(text, now, pad), <<>>),
     sup |-> py_or(extract_supplier(text), <<>>),
     inv |-> py_or(extract_invoice_no(text), <<>>),
     status |-> OK]
\* "if not text.strip(): text = ocr_image(img)"
ocr_text(k) == IF strip(k.ocr_pre) = <<>> THEN k.ocr_raw ELSE k.ocr_pre
\* process_pdf(path) when it returns: (date, sup, inv, status)
process_pdf(k, now, pad) ==
    IF ~k.page THEN [date |-> None, sup |-> None, inv |-> None, status |-> NO_PAGE]
    ELSE extracted(ocr_text(k), now, pad)

\* the row main appends for file f when process_pdf returned p
row_from(f, p) ==
    [orig |-> f, date |-> p.date, sup |-> p.sup, inv |-> p.inv,
     proposed |-> IF p.status = OK THEN build_new_name(p.date, p.sup, p.inv) ELSE <<>>,
     status |-> p.status]
\* the body of main's first loop for file f: the row it appends
row_for(f, k, now, pad) ==
    IF k.err # <<>>
    THEN [orig |-> f, date |-> <<>>, sup |-> <<>>, inv |-> <<>>, proposed |-> <<>>,
          status |-> ERROR(k.err)]
    ELSE row_from(f, process_pdf(k, now, pad))

\* the years and C libraries the batch is run under
BatchYears == {2026}
BatchPads == {TRUE}
\* row_for without its file name, computed once per kind of document
ROWS == [k \in DocKinds, now \in BatchYears, pad \in BatchPads |->
            row_for(<<>>, k, now, pad)]
row_of(d, now, pad) == [ROWS[d.kind, now, pad] EXCEPT !.orig = d.name]

\* os.path.splitext of a name without directories: the extension starts at
\* the last dot, unless only dots come before it
splitext(p) ==
    LET dots == {k \in 1..Len(p) : p[k] = "." /\ \E j \in 1..(k - 1) : p[j] # "."}
        k == CHOOSE d \in dots : \A d2 \in dots : d2 <= d
    IN  IF dots = {} THEN <<p, <<>>>> ELSE <<SubSeq(p, 1, k - 1), SubSeq(p, k, Len(p))>>

\* the numbered name with the counter read after its increment
numbered_after_increment(be, i) == be[1] \o <<" ", "(">> \o str(i + 1) \o <<")">> \o be[2]
\* f"{base} ({i}){ext}"
numbered(be, i) == be[1] \o <<" ", "(">> \o str(i) \o <<")">> \o be[2]
\* the first value of i
FirstNumber == 2

LogName == <<"_", "r", "e", "n", "a", "m", "e", "_", "l", "o", "g", ".", "c", "s", "v">>
ProposedA == ROWS[[page |-> TRUE, err |-> <<>>, ocr_pre |-> TextA, ocr_raw |-> TextA],
                  2026, TRUE].proposed
\* the names the PDFs of the directory may have
\* that name and its first numbered variant
names_of(p) == {p, numbered(splitext(p), FirstNumber)}
PdfNames == {<<"a", ".", "P", "D", "F">>, <<"b", ".", "p", "d", "f">>} \cup names_of(ProposedA)
\* the number of PDFs in the directory
MaxDocs == 2
\* the number of files the external actor creates
MaxExt == 1

RECURSIVE SeqsUpTo(_, _)
SeqsUpTo(X, n) ==
    IF n = 0 THEN {<<>>}
    ELSE LET shorter == SeqsUpTo(X, n - 1)
         IN  shorter \cup {Append(q, x) : q \in {q2 \in shorter : Len(q2) = n - 1}, x \in X}
\* "[f for f in os.listdir(in_dir) if f.lower().endswith(".pdf")]", in any
\* order of the listing
DocLists == {q \in SeqsUpTo([name : PdfNames, kind : DocKinds], MaxDocs) :
                /\ q # <<>>
                /\ \A k \in 1..Len(q) :
                      SubSeq(str_lower(q[k].name), Len(q[k].name) - 3, Len(q[k].name)) = <<".", "p", "d", "f">>
                /\ \A j, k \in 1..Len(q) : j # k => q[j].name # q[k].name}

PureIdle == /\ pdfs = <<>> /\ inplace = FALSE /\ rows = <<>> /\ files = <<>>
            /\ pc = "idle" /\ f_idx = 0 /\ r_idx = 0 /\ dst = <<>> /\ i_ctr = 0
            /\ base_ext = <<>> /\ at_start = {} /\ lost = {} /\ final = <<>>
            /\ warned = {} /\ ext_made = 0
pureVars == <<fn, arg, res>>
mainVars == <<pdfs, inplace, rows, files, pc, f_idx, r_idx, dst, i_ctr, base_ext,
              at_start, lost, final, warned, ext_made>>

\* a directory as a function from the names present to the content each
\* holds: that of the k-th PDF of the listing, the log, or a file made by
\* another program
PdfContent(k) == [of |-> "pdf", k |-> k]
LogContent == [of |-> "log", k |-> 0]
ExtContent == [of |-> "ext", k |-> 0]
put(dir, name, content) ==
    [n \in DOMAIN dir \cup {name} |-> IF n = name THEN content ELSE dir[n]]
remove(dir, name) == [n \in DOMAIN dir \ {name} |-> dir[n]]
\* os.path.exists
exists(dir, name) == name \in DOMAIN dir

\* main up to the first loop: the listing of the directory
InitMain ==
    /\ fn = "main" /\ arg = <<>> /\ res = <<>>
    /\ now_year \in BatchYears /\ pad_year \in BatchPads
    /\ pdfs \in DocLists
    /\ inplace \in BOOLEAN
    /\ rows = <<>>
    /\ files = [n \in {pdfs[k].name : k \in 1..Len(pdfs)} |->
                    PdfContent(CHOOSE k \in 1..Len(pdfs) : pdfs[k].name = n)]
    /\ pc = "extract" /\ f_idx = 0 /\ r_idx = 0
    /\ dst = <<>> /\ i_ctr = 0 /\ base_ext = <<>>
    /\ at_start = {} /\ lost = {} /\ final = <<>> /\ warned = {} /\ ext_made = 0

\* the first loop without its try/except: a failing document ends the loop
ExtractStep_uncaught ==
    /\ pc = "extract" /\ f_idx < Len(pdfs)
    /\ IF pdfs[f_idx + 1].kind.err # <<>>
       THEN /\ f_idx' = Len(pdfs)
            /\ UNCHANGED rows
       ELSE /\ f_idx' = f_idx + 1
            /\ rows' = Append(rows, row_of(pdfs[f_idx + 1], now_year, pad_year))
    /\ UNCHANGED <<pureVars, now_year, pad_year, pdfs, inplace, files, pc, r_idx, dst,
                   i_ctr, base_ext, at_start, lost, final, warned, ext_made>>

\* one turn of "for f in pdfs": try process_pdf and build_new_name, append
\* the row; the except branch appends the ERROR row
ExtractStep ==
    /\ pc = "extract" /\ f_idx < Len(pdfs)
    /\ rows' = Append(rows, row_of(pdfs[f_idx + 1], now_year, pad_year))
    /\ f_idx' = f_idx + 1
    /\ UNCHANGED <<pureVars, now_year, pad_year, pdfs, inplace, files, pc, r_idx, dst,
                   i_ctr, base_ext, at_start, lost, final, warned, ext_made>>

\* the loop is over: the CSV log is written into the directory, and the
\* rename pass begins if --inplace was given
WriteLog ==
    /\ pc = "extract" /\ f_idx = Len(pdfs)
    /\ files' = put(files, LogName, LogContent)
    /\ at_start' = DOMAIN files'
    /\ pc' = IF inplace THEN "rename" ELSE "done"
    /\ UNCHANGED <<pureVars, now_year, pad_year, pdfs, inplace, rows, f_idx, r_idx, dst,
                   i_ctr, base_ext, lost, final, warned, ext_made>>

\* "if status == "OK" and proposed"
to_rename(row) == row.status = OK /\ ~falsy(row.proposed)

\* one turn of "for ... in rows" up to the while loop: dst, i, base and ext
RenameBegin ==
    /\ pc = "rename" /\ r_idx < Len(rows)
    /\ LET row == rows[r_idx + 1]
       IN  IF to_rename(row)
           THEN /\ dst' = row.proposed
                /\ i_ctr' = FirstNumber
                /\ base_ext' = splitext(row.proposed)
                /\ pc' = "check"
                /\ UNCHANGED r_idx
           ELSE /\ r_idx' = r_idx + 1
                /\ UNCHANGED <<dst, i_ctr, base_ext, pc>>
    /\ UNCHANGED <<pureVars, now_year, pad_year, pdfs, inplace, rows, files, f_idx,
                   at_start, lost, final, warned, ext_made>>

\* the rename pass without its while loop: dst is taken as proposed
CheckStep_unchecked ==
    /\ pc = "check"
    /\ pc' = "replace"
    /\ UNCHANGED <<pureVars, now_year, pad_year, pdfs, inplace, rows, files, f_idx, r_idx,
                   dst, i_ctr, base_ext, at_start, lost, final, warned, ext_made>>

\* one test of "while os.path.exists(dst)", and the body when it holds
CheckStep ==
    /\ pc = "check"
    /\ IF exists(files, dst)
       THEN /\ dst' = numbered(base_ext, i_ctr)
            /\ i_ctr' = i_ctr + 1
            /\ UNCHANGED pc
       ELSE /\ pc' = "replace"
            /\ UNCHANGED <<dst, i_ctr>>
    /\ UNCHANGED <<pureVars, now_year, pad_year, pdfs, inplace, rows, files, f_idx, r_idx,
                   base_ext, at_start, lost, final, warned, ext_made>>

\* os.replace(src, dst): raises when src is missing (the except branch
\* prints the warning); otherwise dst becomes src's file, replacing whatever
\* file was at dst
ReplaceStep ==
    /\ pc = "replace"
    /\ LET src == rows[r_idx + 1].orig
       IN  IF ~exists(files, src)
           THEN /\ warned' = warned \cup {r_idx + 1}
                /\ UNCHANGED <<files, lost, final>>
           ELSE /\ files' = put(remove(files, src), dst, files[src])
                /\ lost' = IF exists(files, dst) /\ dst # src
                           THEN lost \cup {files[dst]} ELSE lost
                /\ final' = Append(final, <<r_idx + 1, dst>>)
                /\ UNCHANGED warned
    /\ r_idx' = r_idx + 1
    /\ pc' = "rename"
    /\ UNCHANGED <<pureVars, now_year, pad_year, pdfs, inplace, rows, f_idx, dst, i_ctr,
                   base_ext, at_start, ext_made>>

\* the rows are exhausted
RenameDone ==
    /\ pc = "rename" /\ r_idx = Len(rows)
    /\ pc' = "done"
    /\ UNCHANGED <<pureVars, now_year, pad_year, pdfs, inplace, rows, files, f_idx, r_idx,
                   dst, i_ctr, base_ext, at_start, lost, final, warned, ext_made>>

\* another program, or the user, creates a file in the directory while the
\* batch runs: under a name the rename pass may choose for one of the rows
ExtCreate ==
    /\ pc \in {"extract", "rename", "check", "replace"}
    /\ ext_made < MaxExt
    /\ \E k \in 1..Len(rows) :
          /\ to_rename(rows[k])
          /\ \E n \in names_of(rows[k].proposed) :
                /\ ~exists(files, n)
                /\ files' = put(files, n, ExtContent)
    /\ ext_made' = ext_made + 1
    /\ UNCHANGED <<pureVars, now_year, pad_year, pdfs, inplace, rows, pc, f_idx, r_idx,
                   dst, i_ctr, base_ext, at_start, lost, final, warned>>

Next == ExtractStep \/ WriteLog \/ RenameBegin \/ CheckStep \/ ReplaceStep \/ RenameDone
Spec == InitMain /\ [][Next]_vars

NextExt == Next \/ ExtCreate
SpecExt == InitMain /\ [][NextExt]_vars

-----------------------------------------------------------------------------
(* The pure functions, each applied to inputs drawn from a bounded set *)

\* numeric date fragments: three groups of digits; "DMY" and "YMD" join them
\* with one separator used twice, "spaced" is pattern 3's "12 . 9 . 2025"
DateInputs ==
    LET DayGroups == {<<"1">>, <<"1", "2">>, <<"2", "9">>, <<"3", "0">>, <<"3", "1">>, <<"3", "2">>}
        MonthGroups == {<<"2">>, <<"9">>, <<"0", "9">>, <<"1", "3">>}
        YearGroups == {<<"2", "5">>, <<"2", "4">>, <<"7", "6">>, <<"2", "0", "2", "5">>, <<"2", "0", "2", "4">>, <<"1", "8", "5", "0">>, <<"2", "0", "2">>}
        Separators == {<<".">>, <<"-">>, <<"/">>}
    IN  [form : {"DMY"}, a : DayGroups, b : MonthGroups, c : YearGroups, sep : Separators,
         lead : {<<>>}]
        \cup [form : {"YMD"}, a : {y \in YearGroups : Len(y) = 4}, b : MonthGroups,
              c : DayGroups, sep : Separators, lead : {<<>>}]
        \cup [form : {"spaced"}, a : {<<"1">>, <<"1", "2">>}, b : {<<"9">>}, c : {<<"2", "5">>, <<"2", "0", "2", "5">>},
              sep : {<<" ", ".", " ">>, <<".", " ">>}, lead : {<<>>, <<" ", "\t">>}]
fragment(x) == x.lead \o x.a \o x.sep \o x.b \o x.sep \o x.c
\* the years and C libraries normalize_date is run under
NowYears == {2026, 2027}
Pads == BOOLEAN

InitDate ==
    /\ fn = "normalize_date" /\ arg \in DateInputs /\ res = <<>>
    /\ now_year \in NowYears /\ pad_year \in Pads
    /\ PureIdle
ApplyNormalizeDate ==
    /\ fn = "normalize_date" /\ res = <<>>
    /\ res' = <<normalize_date(fragment(arg), now_year, pad_year)>>
    /\ UNCHANGED <<fn, arg, now_year, pad_year, mainVars>>
NextDate == ApplyNormalizeDate
SpecDate == InitDate /\ [][NextDate]_vars

\* texts around an invoice number: a label, a separator, a value
InvoiceInputs ==
    [lead : {<<>>, <<"A", "c", "m", "e", " ", "a", ".", "s", ".", "\n">>},
     label : {<<"I", "n", "v", "o", "i", "c", "e", " ", "N", "o">>, <<"I", "n", "v", "o", "i", "c", "e", " ", "N", "o", ".">>, <<"I", "n", "v", "o", "i", "c", "e", " ", "N", "u", "m", "b", "e", "r">>, <<"I", "N", "V", "O", "I", "C", "E">>,
              <<"I", "n", "v", "o", "i", "c", "e", " ", "#">>, <<"I", "n", "v">>, <<"F", "a", "k", "t", "u", "r", "a", " ", "c_caron", ".">>, <<"f", "a", "k", "t", "u", "r", "a">>, <<"C_caron", "i_acute", "s", "l", "o", " ", "f", "a", "k", "t", "u", "r", "y">>,
              <<"V", "S">>, <<>>},
     sep : {<<":", " ">>, <<" ">>, <<":", "\n">>},
     value : {<<"F", "A", "-", "2", "0", "2", "5", "/", "0", "0", "9", "9">>, <<"1", "2">>, <<"a", "b", "1">>}, trail : {<<>>, <<"\n", "1", ".", "2", ".", "2", "5">>}]

InitInvoice ==
    /\ fn = "extract_invoice_no" /\ arg \in InvoiceInputs /\ res = <<>>
    /\ now_year \in BatchYears /\ pad_year \in BatchPads
    /\ PureIdle
ApplyExtractInvoiceNo ==
    /\ fn = "extract_invoice_no" /\ res = <<>>
    /\ res' = <<extract_invoice_no(arg.lead \o arg.label \o arg.sep \o arg.value \o arg.trail)>>
    /\ UNCHANGED <<fn, arg, now_year, pad_year, mainVars>>
NextInvoice == ApplyExtractInvoiceNo
SpecInvoice == InitInvoice /\ [][NextInvoice]_vars

\* candidate supplier lines: something before the name, the name, a tail
CleanInputs ==
    LET Letters58 == [k \in 1..58 |-> "A"] IN
    [lead : {<<>>, <<"x", "@", "y", ".", "c", "z", " ">>, <<"+", "4", "2", "0", " ", "1", "2", "3", " ", "4", "5", "6", " ", "7", "8", "9", " ">>, <<"-", " ">>},
     core : {<<"F", "o", "o">>, <<"(", "F", "o", "o", ")">>, <<"!", "F", "o", "o">>, <<"A", "c", "m", "e", " ", "a", ".", "s", ".">>, <<"F", "o", "o", "\t", "B", "a", "r">>,
             Letters58 \o <<"A", ".", " ", "b", "c", "d">>, Letters58 \o <<" ", ".", "x">>},
     trail : {<<>>, <<" ", "u", "l", "i", "c", "e", " ", "5">>, <<",", ".">>}]

InitClean ==
    /\ fn = "clean_company_name" /\ arg \in CleanInputs /\ res = <<>>
    /\ now_year \in BatchYears /\ pad_year \in BatchPads
    /\ PureIdle
\* clean_company_name applied to the line, then to its own result
ApplyCleanCompanyName ==
    /\ fn = "clean_company_name" /\ Len(res) < 2
    /\ res' = Append(res, clean_company_name(IF res = <<>> THEN arg.lead \o arg.core \o arg.trail
                                             ELSE res[Len(res)]))
    /\ UNCHANGED <<fn, arg, now_year, pad_year, mainVars>>
NextClean == ApplyCleanCompanyName
SpecClean == InitClean /\ [][NextClean]_vars

\* the fields build_new_name may be given
NameInputs ==
    [date : {None, <<>>, <<"2", "0", "2", "5", "-", "0", "9", "-", "1", "2">>},
     supplier : {None, <<>>, <<"A", "c", "m", "e", " ", "a", ".", "s">>, <<" ", "a", "/", "b", "\t", "\t", ":", "c", " ">>, <<"C_caron", "E", "Z">>, <<"x", "\\", "y", "*", "?", "\"", "<", ">", "|", "z">>,
                 <<"S", "t", "r", "a", "sharp_s", "e", " ", " ", "1">>, <<"\t">>},
     invno : {None, <<>>, <<"F", "A", "-", "2", "0", "2", "5", "/", "0", "0", "9", "9">>, <<"a", " ", "\t", "b">>}]

InitName ==
    /\ fn = "build_new_name" /\ arg \in NameInputs /\ res = <<>>
    /\ now_year \in BatchYears /\ pad_year \in BatchPads
    /\ PureIdle
ApplyBuildNewName ==
    /\ fn = "build_new_name" /\ res = <<>>
    /\ res' = <<build_new_name(arg.date, arg.supplier, arg.invno)>>
    /\ UNCHANGED <<fn, arg, now_year, pad_year, mainVars>>
NextName == ApplyBuildNewName
SpecName == InitName /\ [][NextName]_vars

-----------------------------------------------------------------------------
(* The properties *)

\* the text s starts with, ends with, holds the text p
HasPrefix(s, p) == Len(s) >= Len(p) /\ SubSeq(s, 1, Len(p)) = p
HasSuffix(s, p) == Len(s) >= Len(p) /\ SubSeq(s, Len(s) - Len(p) + 1, Len(s)) = p
Contains(s, p) == \E k \in 0..(Len(s) - Len(p)) : SubSeq(s, k + 1, k + Len(p)) = p
\* the name p with " (k)" before its extension, the last dot and what follows
variant(p, k) ==
    LET dot == CHOOSE d \in 1..Len(p) : p[d] = "." /\ \A e \in (d + 1)..Len(p) : p[e] # "."
    IN  SubSeq(p, 1, dot - 1) \o <<" ", "(">> \o str(k) \o <<")">> \o SubSeq(p, dot, Len(p))
\* the document whose OCR gives the date, supplier and number of TextA
Readable(k) == k.page /\ k.err = <<>> /\ k.ocr_raw = TextA
\* the document that has a page and no OCR text, preprocessed or not
NoText(k) == k.page /\ k.err = <<>> /\ strip(k.ocr_pre) = <<>> /\ strip(k.ocr_raw) = <<>>

\* C1: when the existence check of the rename pass ends, the destination is
\* not in the directory; it is the proposed name when that name is free, and
\* otherwise the proposed name numbered with the smallest number from 2 on
\* whose name is free, every smaller one being occupied
C1_CollisionResolution ==
    pc = "replace" =>
        LET p == rows[r_idx + 1].proposed
        IN  /\ ~exists(files, dst)
            /\ IF ~exists(files, p) THEN dst = p
               ELSE \E k \in 2..i_ctr :
                        /\ dst = variant(p, k)
                        /\ \A j \in 2..(k - 1) : exists(files, variant(p, j))
\* the proposed name and its variant 2 are both occupied: variant 3 is chosen
C1_Witness ==
    /\ pc = "replace"
    /\ exists(files, rows[r_idx + 1].proposed)
    /\ exists(files, variant(rows[r_idx + 1].proposed, 2))
    /\ dst = variant(rows[r_idx + 1].proposed, 3)

\* C2: the first loop makes one row per input document, in input order,
\* whichever documents fail; a failing document's row has status
\* "ERROR:<message>", empty fields and an empty proposed name, the documents
\* after it get their rows as if it had not failed, and when the loop is over
\* there are as many rows as documents
C2_OneRowPerDocument ==
    /\ Len(rows) = f_idx
    /\ f_idx <= Len(pdfs)
    /\ pc # "extract" => Len(rows) = Len(pdfs)
    /\ \A k \in 1..Len(rows) :
          /\ rows[k].orig = pdfs[k].name
          /\ pdfs[k].kind.err # <<>> =>
                /\ rows[k].status = <<"E", "R", "R", "O", "R", ":">> \o pdfs[k].kind.err
                /\ rows[k].date = <<>> /\ rows[k].sup = <<>> /\ rows[k].inv = <<>>
                /\ rows[k].proposed = <<>>
          /\ pdfs[k].kind.err = <<>> => ~HasPrefix(rows[k].status, <<"E", "R", "R", "O", "R", ":">>)
          /\ Readable(pdfs[k].kind) =>
                /\ rows[k].status = <<"O", "K">>
                /\ rows[k].date = <<"2", "0", "2", "5", "-", "0", "2", "-", "0", "1">> /\ rows[k].inv = <<"F", "1", "/", "2", "2">>
\* the batch is over, its first document failed and its second has its fields
C2_Witness ==
    /\ pc = "done" /\ Len(pdfs) = 2 /\ Len(rows) = 2
    /\ pdfs[1].kind.err # <<>>
    /\ rows[1].status = <<"E", "R", "R", "O", "R", ":", "b", "o", "o", "m">>
    /\ rows[2].status = <<"O", "K">> /\ rows[2].date = <<"2", "0", "2", "5", "-", "0", "2", "-", "0", "1">>

\* C3: a file that another program creates under the chosen destination,
\* after the existence check and before the rename, is not overwritten:
\* every file so created is still in the directory
C3_LateCollisionNotOverwritten ==
    Cardinality({n \in DOMAIN files : files[n] = ExtContent}) = ext_made

\* C4: a document with a page and no OCR text, also after the retry, gets
\* one row with empty date, supplier and invoice number and a status that is
\* not an ERROR status (it is "OK"); the documents after it get their rows
C4_EmptyOcrText ==
    /\ Len(rows) = f_idx
    /\ pc # "extract" => Len(rows) = Len(pdfs)
    /\ \A k \in 1..Len(rows) :
          NoText(pdfs[k].kind) =>
             /\ rows[k].date = <<>> /\ rows[k].sup = <<>> /\ rows[k].inv = <<>>
             /\ rows[k].status = <<"O", "K">>
             /\ ~HasPrefix(rows[k].status, <<"E", "R", "R", "O", "R", ":">>)
             /\ \A j \in (k + 1)..Len(rows) :
                   Readable(pdfs[j].kind) =>
                      /\ rows[j].status = <<"O", "K">>
                      /\ rows[j].date = <<"2", "0", "2", "5", "-", "0", "2", "-", "0", "1">> /\ rows[j].sup = <<"A", "c", "m", "e", " ", "a", ".", "s">>
                      /\ rows[j].inv = <<"F", "1", "/", "2", "2">>
\* the batch is over; its first document had no text at all, its second
\* has its fields
C4_Witness ==
    /\ pc = "done" /\ Len(pdfs) = 2 /\ Len(rows) = 2
    /\ pdfs[1].kind.page /\ pdfs[1].kind.err = <<>>
    /\ pdfs[1].kind.ocr_pre = <<>> /\ pdfs[1].kind.ocr_raw = <<>>
    /\ rows[1].status = <<"O", "K">> /\ rows[1].date = <<>>
    /\ rows[2].date = <<"2", "0", "2", "5", "-", "0", "2", "-", "0", "1">>

\* the days of month m of year y
CalendarDays(y, m) ==
    IF m = 2 THEN (IF y % 4 = 0 /\ (y % 100 # 0 \/ y % 400 = 0) THEN 29 ELSE 28)
    ELSE IF m \in {4, 6, 9, 11} THEN 30 ELSE 31
RealDate(y, m, d) == m \in 1..12 /\ d >= 1 /\ d <= CalendarDays(y, m)
\* n in w digits
Digits_w(n, w) == [k \in 1..w |-> DigitSeq[((n \div (10 ^ (w - k))) % 10) + 1]]
Iso(y, m, d) == Digits_w(y, 4) \o <<"-">> \o Digits_w(m, 2) \o <<"-">> \o Digits_w(d, 2)
\* the three groups of a fragment read by their widths
ByWidth(x) ==
    IF Len(x.a) = 4 THEN [y |-> int(x.a), m |-> int(x.b), d |-> int(x.c)]
    ELSE IF Len(x.c) = 4 THEN [y |-> int(x.c), m |-> int(x.b), d |-> int(x.a)]
    ELSE [y |-> 2000 + int(x.c), m |-> int(x.b), d |-> int(x.a)]
\* C5: on a fragment Y-M-D, D-M-Y or D-M-YY with separators . - / the result
\* of normalize_date is the date the groups name, read by their widths, as
\* "YYYY-MM-DD" when that is a real calendar date, and None when it is not
C5_NormalizeDate ==
    (/\ fn = "normalize_date" /\ res # <<>>
     /\ arg.form \in {"DMY", "YMD"}
     /\ (Len(arg.a) = 4 \/ Len(arg.c) \in {2, 4}))
    => LET t == ByWidth(arg)
       IN  res[1] = IF RealDate(t.y, t.m, t.d) THEN Iso(t.y, t.m, t.d) ELSE None

\* C6: every date normalize_date returns through its numeric patterns has
\* year >= 1900, month in 1..12, day in 1..31, is a real calendar date and
\* is rendered in 10 characters as YYYY-MM-DD
C6_CalendarDateInvariant ==
    (/\ fn = "normalize_date" /\ res # <<>>
     /\ numeric_date(strip(fragment(arg)), 1) # NoDate)
    => LET t == numeric_date(strip(fragment(arg)), 1)
       IN  /\ t.y >= 1900
           /\ RealDate(t.y, t.mn, t.d) /\ t.d <= 31
           /\ res[1] = Iso(t.y, t.mn, t.d)
           /\ Len(res[1]) = 10

\* C7: on a text holding "Invoice No: FA-2025/0099" and no label of an
\* earlier pattern, extract_invoice_no returns "FA-2025/0099"
C7_InvoiceNoCascade ==
    (/\ fn = "extract_invoice_no" /\ res # <<>>
     /\ arg.label = <<"I", "n", "v", "o", "i", "c", "e", " ", "N", "o">> /\ arg.sep = <<":", " ">> /\ arg.value = <<"F", "A", "-", "2", "0", "2", "5", "/", "0", "0", "9", "9">>)
    => res[1] = <<"F", "A", "-", "2", "0", "2", "5", "/", "0", "0", "9", "9">>

\* C8: clean_company_name applied to its own result returns that result
C8_CleanIdempotent ==
    (fn = "clean_company_name" /\ Len(res) = 2) => res[2] = res[1]

\* a field that is None or empty
Absent(x) == x = None \/ x = <<>>
\* C9: whichever of date, supplier and invoice number are absent, each
\* absent one is replaced by its own sentinel, and the name ends in .pdf,
\* holds none of the nine characters sanitize_filename replaces, no two
\* whitespace characters in a row and no whitespace at either end
C9_BuildNewName ==
    (fn = "build_new_name" /\ res # <<>>) =>
        LET name == res[1]
        IN  /\ HasSuffix(name, <<".", "p", "d", "f">>)
            /\ \A k \in 1..Len(name) :
                  name[k] \notin {"/", "\\", ":", "*", "?", "\"", "<", ">", "|"}
            /\ \A k \in 1..(Len(name) - 1) :
                  ~(name[k] \in Whitespace /\ name[k + 1] \in Whitespace)
            /\ name[1] \notin Whitespace /\ name[Len(name)] \notin Whitespace
            /\ Absent(arg.date) => HasPrefix(name, <<"0", "0", "0", "0", "-", "0", "0", "-", "0", "0", " ">>)
            /\ Absent(arg.supplier) => Contains(name, <<" ", "N", "e", "z", "n", "a", "m", "y", "-", "d", "o", "d", "a", "v", "a", "t", "e", "l", " ">>)
            /\ Absent(arg.invno) => HasSuffix(name, <<" ", "B", "e", "z", "-", "c", "i", "s", "l", "a", ".", "p", "d", "f">>)
            /\ Cardinality({<<"0", "0", "0", "0", "-", "0", "0", "-", "0", "0">>, <<"N", "e", "z", "n", "a", "m", "y", "-", "d", "o", "d", "a", "v", "a", "t", "e", "l">>, <<"B", "e", "z", "-", "c", "i", "s", "l", "a">>}) = 3
\* the three fields are None: the name is made of the three sentinels
C9_Witness ==
    /\ fn = "build_new_name" /\ res # <<>>
    /\ arg.date = None /\ arg.supplier = None /\ arg.invno = None
    /\ res[1] = <<"0", "0", "0", "0", "-", "0", "0", "-", "0", "0", " ", "N", "e", "z", "n", "a", "m", "y", "-", "d", "o", "d", "a", "v", "a", "t", "e", "l", " ", "B", "e", "z", "-", "c", "i", "s", "l", "a", ".", "p", "d", "f">>

\* C10: with nothing but the batch changing the directory, no rename of
\* the rename pass overwrites a file: the directory keeps its number of
\* files and every PDF it listed, only rows with status OK and a proposed
\* name are renamed, none fails, and the final names are pairwise distinct
C10_NoFileLost ==
    pc \in {"rename", "check", "replace", "done"} =>
        /\ lost = {}
        /\ warned = {}
        /\ Cardinality(DOMAIN files) = Cardinality(at_start)
        /\ \A k \in 1..Len(pdfs) : \E n \in DOMAIN files : files[n] = PdfContent(k)
        /\ \A j \in 1..Len(final) :
              /\ rows[final[j][1]].status = <<"O", "K">>
              /\ rows[final[j][1]].proposed # <<>>
              /\ exists(files, final[j][2])
              /\ files[final[j][2]] = PdfContent(final[j][1])
        /\ \A j, k \in 1..Len(final) : j # k => final[j][2] # final[k][2]
\* the pass is over for two documents with one proposed name, the first of
\* them already carrying that name: both were renamed, to different names
C10_Witness ==
    /\ pc = "done" /\ inplace /\ Len(final) = 2
    /\ rows[1].proposed = rows[2].proposed
    /\ rows[1].orig = rows[1].proposed
    /\ final[1][2] # final[2][2]

====
